---- MODULE Spec2Model ----
(***************************************************************************)
(* PyIKuaiMiddle: the reader/writer lock (rwlock.py), the session client   *)
(* that uses it (lemonyikuai/core.py), the decorators (decorators.py) and  *)
(* the route pipeline (app.py), as state machines.                         *)
(***************************************************************************)
EXTENDS Integers, FiniteSets, Sequences, TLC

\* ------------------------------------------------------------------ bounds
\* threads using a ReadWriteLock on its own
NThreads == 3
\* threads calling login() and call() on the session, beside the Scheduler's
NWorkers == 1
\* acquisitions of the lock begun in one run
MaxOps == 3
\* login()s and call()s begun by the workers in one run
MaxRequests == 2
\* threads calling a CacheWrapper
NCallers == 2
\* invocations of the CacheWrapper begun in one run
MaxCalls == 3
\* distinct argument keys
NKeys == 2
\* the last value of the clock
MaxTime == 6
\* threads calling an OnlyOneRunning
NRunners == 3
\* invocations of the OnlyOneRunning begun in one run
MaxRuns == 4

\* cache_expiry's default in app.py
ExpireSeconds == 5

\* ------------------------------------------------------------- identifiers
Threads == 1..NThreads
Workers == 1..NWorkers
SchedT == 0
AllThreads == Threads \cup Workers \cup {SchedT}
NoThread == -1
None == 0
Callers == 1..NCallers

\* The arguments of a call: the positional ones in order, and the keyword ones
\* as <<name, value>> pairs in the order the call writes them.
NoArgs == [args |-> <<>>, kwargs |-> <<>>]
Positional(v) == [args |-> <<v>>, kwargs |-> <<>>]
Keyword(v) == [args |-> <<>>, kwargs |-> <<<<"a", v>>>>]
TwoKeywords(v, w) == [args |-> <<>>, kwargs |-> <<<<"a", v>>, <<"b", w>>>>]
Swapped(v, w) == [args |-> <<>>, kwargs |-> <<<<"b", w>>, <<"a", v>>>>]
ArgValues == 1..NKeys

\* The calls of KeySpec: f(1), f(a=1), f(a=2), f(a=1, b=2) and f(b=2, a=1).
ArgForms == {Positional(1), Keyword(1), Keyword(2), TwoKeywords(1, 2), Swapped(1, 2)}

\* A key that leaves the keyword arguments' values out.
KeyOfNames(c) == <<c.args, {c.kwargs[i][1] : i \in 1..Len(c.kwargs)}>>

\* key = (args, frozenset(kwargs.items()))
KeyOf(c) == <<c.args, {c.kwargs[i] : i \in 1..Len(c.kwargs)}>>

\* The keys of CacheSpec's calls f(1), f(2), ..., and the key of a route of
\* app.py, whose function takes no arguments.
Keys == {KeyOf(Positional(v)) : v \in ArgValues}
AppKey == KeyOf(NoArgs)
Expires == {-1, 0, ExpireSeconds}
Runners == 1..NRunners

VARIABLES
    readers,      \* ReadWriteLock._readers
    writer,       \* ReadWriteLock._writer
    lock,         \* ReadWriteLock._lock: the thread inside `with self._lock`, or NoThread
    read_ready,   \* ReadWriteLock._read_ready: the threads blocked in wait()
    pc,           \* per thread: the operation it is in
    lk,           \* per thread: its position inside a ReadWriteLock method
    waited,       \* per thread: what its current acquire_* last waited for
    ops,          \* lock acquisitions, or login()s and call()s, begun so far by the threads
    session,      \* RequestBase._session: None or the Session object
    made,         \* Session objects constructed so far
    out,          \* per thread: what its login()/call() got and raises or returns
    interval,     \* Scheduler._interval
    started,      \* app.py has called relogin_scheduler.start()
    runs,         \* runs of the wrapped callable on the Scheduler's thread
    expire,       \* CacheWrapper._expire
    cache,        \* CacheWrapper._cache: key -> result
    last_call,    \* CacheWrapper._last_call: key -> time
    cache_lock,   \* CacheWrapper._lock: the thread inside `with self._lock`, or NoThread
    count,        \* the counter the wrapped function increments and returns
    now,          \* time.time()
    cpc,          \* per caller: its position in CacheWrapper.__call__
    key,          \* per caller: the key of its invocation
    cargs,        \* per caller: the arguments of its invocation
    computed,     \* result -> the arguments the wrapped function returned it for
    current_time, \* per caller: the local current_time of __call__
    invoked,      \* per caller: its invocation has called the wrapped function
    stored,       \* per caller: the entry of its key when it released the lock
    ret,          \* per caller: what its invocation returned or raised
    calls,        \* invocations of the wrapper begun so far
    fcalls,       \* calls of the wrapped function begun so far
    access_token, \* app.access_token
    hdr,          \* per caller: the Authorization header of its request
    run_lock,     \* OnlyOneRunning._lock: the thread inside `with self._lock`, or NoThread
    rpc,          \* per runner: its position in OnlyOneRunning.__call__
    ran,          \* per runner: executions of the body by its current invocation
    rres,         \* per runner: what its invocation returned or raised
    invocations,  \* invocations of the OnlyOneRunning begun so far
    executions,   \* executions of the wrapped function begun so far
    sync_runs     \* direct calls of the Scheduler object begun so far

lockVars == <<readers, writer, lock, read_ready, lk, waited>>
sessVars == <<session, made, out, interval, started, runs>>
cacheVars == <<expire, cache, last_call, cache_lock, count, now, cpc, key, cargs, computed,
               current_time, invoked, stored, ret, calls, fcalls, access_token, hdr>>
runVars == <<run_lock, rpc, ran, rres, invocations, executions>>
moreVars == <<runVars, sync_runs>>
otherVars == <<sessVars, cacheVars, moreVars>>
vars == <<readers, writer, lock, read_ready, pc, lk, waited, ops, sessVars, cacheVars, moreVars>>

\* ---------------------------------------------------------- ReadWriteLock
\* Which ReadWriteLock method the operation at position p is calling.
InAcquireRead(p) == p \in {"acquire_read", "call_enter"}
InReleaseRead(p) == p \in {"release_read", "call_exit"}
InAcquireWrite(p) == p \in {"acquire_write", "login_enter"}
InReleaseWrite(p) == p \in {"release_write", "login_exit"}
InLockMethod(p) ==
    InAcquireRead(p) \/ InReleaseRead(p) \/ InAcquireWrite(p) \/ InReleaseWrite(p)

\* Where the caller continues when the method returns.
Continue(t, p) ==
    CASE p = "acquire_read" -> "reading"
      [] p = "release_read" -> "idle"
      [] p = "acquire_write" -> "writing"
      [] p = "release_write" -> "idle"
      [] p = "call_enter" -> "call_post"
      [] p = "call_exit" -> "call_check"
      [] p = "login_enter" -> "login_new"
      [] p = "login_exit" -> "returned"
      [] OTHER -> p

\* ReadWriteLock.__init__
LockInit ==
    /\ readers = 0
    /\ writer = FALSE
    /\ lock = NoThread
    /\ read_ready = {}
    /\ lk = [t \in AllThreads |-> "out"]
    /\ waited = [t \in AllThreads |-> "no"]

\* A call of a ReadWriteLock method by t, from position p of its caller.
CallLock(t, p) ==
    /\ pc' = [pc EXCEPT ![t] = p]
    /\ lk' = [lk EXCEPT ![t] = "lock"]
    /\ waited' = [waited EXCEPT ![t] = "no"]

\* `with self._lock:` entered, or wait() re-acquiring the lock once notified.
LockEnter(t) ==
    /\ InLockMethod(pc[t])
    /\ \/ lk[t] = "lock"
       \/ lk[t] = "wait" /\ t \notin read_ready
    /\ lock = NoThread
    /\ lock' = t
    /\ lk' = [lk EXCEPT ![t] = "held"]
    /\ UNCHANGED <<readers, writer, read_ready, pc, waited, ops, otherVars>>

\* self._read_ready.wait(): releases the lock and blocks until notified.
Wait(t) ==
    /\ lock' = NoThread
    /\ read_ready' = read_ready \cup {t}
    /\ lk' = [lk EXCEPT ![t] = "wait"]
    /\ waited' = [waited EXCEPT ![t] = IF writer THEN "writer" ELSE "readers"]
    /\ UNCHANGED <<readers, writer, pc>>

\* The method returns: the `with self._lock` block is left.
Return(t) ==
    /\ lock' = NoThread
    /\ lk' = [lk EXCEPT ![t] = "out"]
    /\ pc' = [pc EXCEPT ![t] = Continue(t, pc[t])]

\* acquire_read admitting readers while a writer is active.
ReadBlockedNever == FALSE

\* acquire_read that gives way to a waiting writer.
ReadBlockedWriterPriority == writer \/ \E u \in Threads : pc[u] = "acquire_write"

\* The loop condition of acquire_read.
ReadBlocked == writer

\* acquire_write that does not wait for the readers to leave.
WriteBlockedByWriterOnly == writer

\* The loop condition of acquire_write.
WriteBlocked == writer \/ readers > 0

\* release_read that forgets notify_all.
ReadNotifiesNever(n) == FALSE

\* Whether release_read notifies, n being the readers left.
ReadNotifies(n) == n = 0

acquire_read(t) ==
    /\ InAcquireRead(pc[t])
    /\ lk[t] = "held"
    /\ IF ReadBlocked
       THEN Wait(t)
       ELSE /\ readers' = readers + 1
            /\ Return(t)
            /\ UNCHANGED <<writer, read_ready, waited>>
    /\ UNCHANGED <<ops, otherVars>>

release_read(t) ==
    /\ InReleaseRead(pc[t])
    /\ lk[t] = "held"
    /\ readers' = readers - 1
    /\ read_ready' = IF ReadNotifies(readers') THEN {} ELSE read_ready
    /\ Return(t)
    /\ UNCHANGED <<writer, waited, ops, otherVars>>

acquire_write(t) ==
    /\ InAcquireWrite(pc[t])
    /\ lk[t] = "held"
    /\ IF WriteBlocked
       THEN Wait(t)
       ELSE /\ writer' = TRUE
            /\ Return(t)
            /\ UNCHANGED <<readers, read_ready, waited>>
    /\ UNCHANGED <<ops, otherVars>>

release_write(t) ==
    /\ InReleaseWrite(pc[t])
    /\ lk[t] = "held"
    /\ writer' = FALSE
    /\ read_ready' = {}
    /\ Return(t)
    /\ UNCHANGED <<readers, waited, ops, otherVars>>

LockStep(t) ==
    \/ LockEnter(t)
    \/ acquire_read(t)
    \/ release_read(t)
    \/ acquire_write(t)
    \/ release_write(t)

\* ------------------------------------------- threads using the lock directly
\* _ReadLock.__enter__ / _WriteLock.__enter__ : a thread begins a matched pair.
BeginRead(t) ==
    /\ pc[t] = "idle"
    /\ ops < MaxOps
    /\ ops' = ops + 1
    /\ CallLock(t, "acquire_read")
    /\ UNCHANGED <<readers, writer, lock, read_ready, otherVars>>

BeginWrite(t) ==
    /\ pc[t] = "idle"
    /\ ops < MaxOps
    /\ ops' = ops + 1
    /\ CallLock(t, "acquire_write")
    /\ UNCHANGED <<readers, writer, lock, read_ready, otherVars>>

\* _ReadLock.__exit__ / _WriteLock.__exit__
EndRead(t) ==
    /\ pc[t] = "reading"
    /\ CallLock(t, "release_read")
    /\ UNCHANGED <<readers, writer, lock, read_ready, ops, otherVars>>

EndWrite(t) ==
    /\ pc[t] = "writing"
    /\ CallLock(t, "release_write")
    /\ UNCHANGED <<readers, writer, lock, read_ready, ops, otherVars>>

\* No login() or call() result.
NoOut ==
    [op |-> "none", err |-> "none", status |-> 0, decoded |-> FALSE, code |-> 0,
     result |-> <<>>]

ThreadsInit ==
    /\ pc = [t \in AllThreads |-> IF t = SchedT THEN "unstarted" ELSE "idle"]
    /\ ops = 0
    /\ out = [t \in AllThreads |-> NoOut]
    /\ sync_runs = 0

\* The session and the scheduler left as constructed, for the specifications
\* that do not use them.
SessionIdle ==
    /\ session = None
    /\ made = 0
    /\ interval = 0
    /\ started = FALSE
    /\ runs = 0

\* No return value yet, and the Authorization header of a call that is no request.
NoRet == [kind |-> "none", val |-> 0]
NoHeader == <<"-">>

\* CacheWrapper.__init__, and no caller inside __call__.
EmptyDict == [k \in {} |-> 0]

CacheInit ==
    /\ cache = EmptyDict
    /\ last_call = EmptyDict
    /\ cache_lock = NoThread
    /\ count = 0
    /\ now = 0
    /\ cpc = [t \in Callers |-> "idle"]
    /\ key = [t \in Callers |-> AppKey]
    /\ cargs = [t \in Callers |-> NoArgs]
    /\ computed = EmptyDict
    /\ current_time = [t \in Callers |-> 0]
    /\ invoked = [t \in Callers |-> FALSE]
    /\ stored = [t \in Callers |-> NoRet]
    /\ ret = [t \in Callers |-> NoRet]
    /\ calls = 0
    /\ fcalls = 0
    /\ hdr = [t \in Callers |-> NoHeader]

\* OnlyOneRunning.__init__, and no runner inside __call__.
RunInit ==
    /\ run_lock = NoThread
    /\ rpc = [t \in Runners |-> "idle"]
    /\ ran = [t \in Runners |-> 0]
    /\ rres = [t \in Runners |-> NoRet]
    /\ invocations = 0
    /\ executions = 0

\* The cache and the routes left as constructed, for the specifications that
\* do not use them.
CacheIdle ==
    /\ CacheInit
    /\ expire = 0
    /\ access_token = <<>>

LockSpecInit ==
    /\ LockInit
    /\ RunInit
    /\ ThreadsInit
    /\ SessionIdle
    /\ CacheIdle

LockSpecNext ==
    \E t \in Threads :
        \/ BeginRead(t)
        \/ BeginWrite(t)
        \/ EndRead(t)
        \/ EndWrite(t)
        \/ LockEnter(t)
        \/ acquire_read(t)
        \/ release_read(t)
        \/ acquire_write(t)
        \/ release_write(t)

LockSpec == LockSpecInit /\ [][LockSpecNext]_vars

\* A thread that acquired the lock releases it (matched pairs), and a thread
\* inside a lock method keeps running; nothing obliges a thread to begin.
ThreadProgress(t) ==
    \/ EndRead(t)
    \/ EndWrite(t)
    \/ LockStep(t)

FairLockSpec == LockSpec /\ \A t \in Threads : WF_vars(ThreadProgress(t))

\* The threads between acquire and release.
ReadHolders == {t \in AllThreads : pc[t] \in {"reading", "release_read"}}
WriteHolders == {t \in AllThreads : pc[t] \in {"writing", "release_write"}}

\* C1: in every reachable state a writer being active implies there are no
\* readers, at most one thread holds the write lock, readers is never
\* negative, and no thread holds the read lock while one holds the write lock.
C1_LockExclusion ==
    /\ writer => readers = 0
    /\ readers >= 0
    /\ Cardinality(WriteHolders) <= 1
    /\ WriteHolders # {} => ReadHolders = {}
    /\ readers = Cardinality(ReadHolders)
    /\ writer <=> WriteHolders # {}

C1_Witness ==
    \E a, b \in Threads :
        /\ a # b
        /\ pc[a] = "writing"
        /\ pc[b] = "acquire_read" /\ lk[b] = "wait"

\* C9: under fair scheduling and bounded reader churn, a thread that is in
\* acquire_write is eventually admitted: once the readers have released and no
\* writer is active it holds the write lock.
C9_WriterAdmitted ==
    \A t \in Threads : (pc[t] = "acquire_write") ~> (pc[t] = "writing")

\* B was made to wait by a reader and has been admitted after the reader left.
C9_Witness ==
    \E a, b \in Threads :
        /\ a # b
        /\ pc[b] = "writing"
        /\ waited[b] = "readers"
        /\ pc[a] = "idle"
        /\ readers = 0

\* ------------------------------------------------ the upstream's responses
Statuses == {200, 204, 403}
Codes == {0, 10001, 20000}
Intervals == {0, 3600}

\* What RequestBase.post can come back with: a transport error raised by
\* requests, or a response with its status and body (a JSON envelope with its
\* Result code, the "sending to kernel ..." acknowledgement wrapping one, or
\* text that is no JSON).
Responses ==
    {[kind |-> "error", status |-> 0, body |-> "none", code |-> 0]}
    \cup {[kind |-> "response", status |-> s, body |-> "none", code |-> 0] :
            s \in Statuses \ {200}}
    \cup {[kind |-> "response", status |-> 200, body |-> "garbage", code |-> 0]}
    \cup {[kind |-> "response", status |-> 200, body |-> b, code |-> c] :
            b \in {"json", "sentinel"}, c \in Codes}

\* What an operation leaves with: the exception e it raises ("none" when it
\* returns), the status_code it read, and the Result code of the envelope when
\* it got one decoded.
Outcome(o, e, r, d) ==
    [op |-> o, err |-> e, status |-> r.status, decoded |-> d,
     code |-> IF d THEN r.code ELSE 0, result |-> <<>>]

\* resp.json() in login(): the body decodes when it is the JSON envelope.
LoginDecodes(r) == r.kind = "response" /\ r.status = 200 /\ r.body = "json"

\* resp.json() in call(), and json.loads of the acknowledgement stripped of
\* "sending to kernel ..." when that fails.
CallDecodes(r) ==
    r.kind = "response" /\ r.status = 200 /\ r.body \in {"json", "sentinel"}

\* A with statement that skips __exit__ when its body raises.
ExitSkippedOnRaise(e, p) == IF e = "none" THEN p ELSE "returned"

\* Where the body of `with self._lock.read_lock()` / `write_lock()` leaves to,
\* e being what it raises ("none" when it returns): __exit__ calls the release
\* method p on every way out.
WithExit(e, p) == p

\* ------------------------------------------------------------ IKuaiSession
\* login() that raises on a failing Result code without clearing the session.
LoginClearsOnStatusOnly(r) == r.kind = "response" /\ r.status # 200

\* Whether login() assigns None to the session for response r (lines 87-94).
LoginClears(r) ==
    /\ r.kind = "response"
    /\ \/ r.status # 200
       \/ r.body = "json" /\ r.code % 10000 # 0

\* What login() raises for response r.
LoginRaises(r) ==
    IF r.kind = "error" THEN "ConnectionError"
    ELSE IF r.status # 200 THEN "AuthError"
    ELSE IF r.body # "json" THEN "JSONDecodeError"
    ELSE IF r.code % 10000 # 0 THEN "AuthError"
    ELSE "none"

\* What the body of call() raises for response r.
CallRaises(r) ==
    IF r.kind = "error" THEN "ConnectionError"
    ELSE IF r.status >= 400 THEN "HTTPError"
    ELSE IF r.status # 200 THEN "RuntimeError"
    ELSE IF r.body = "garbage" THEN "JSONDecodeError"
    ELSE "none"

\* The envelope the upstream sends with Result code c: its ErrMsg and its Data.
ErrMsg(c) == <<"ErrMsg", c>>
Data(c) == <<"Data", c>>

\* check_result that takes only the code 0 for a success.
CheckRaisesNonZero(o) ==
    IF o.err # "none" THEN o.err
    ELSE IF o.code # 0 THEN "APIError"
    ELSE "none"

\* check_result around call(): what the caller gets raised, o being what the
\* body of call() raised or returned.
CheckRaises(o) ==
    IF o.err # "none" THEN o.err
    ELSE IF o.code % 10000 # 0 THEN "APIError"
    ELSE "none"

\* check_result around call(): what the caller gets: the exception of the
\* body, APIError(f"code {code}: {msg}"), or result.get("Data").
CheckResult(o) ==
    IF o.err # "none" THEN <<o.err>>
    ELSE IF CheckRaises(o) = "APIError" THEN <<"APIError", o.code, ErrMsg(o.code)>>
    ELSE <<"return", Data(o.code)>>

\* IKuaiSession.__init__: the lock is created and the first login() succeeded.
SessionInit ==
    /\ session = 1
    /\ made = 1

\* login(): `with self._lock.write_lock()`.
BeginLogin(t) ==
    /\ pc[t] = "idle"
    /\ ops < MaxRequests
    /\ ops' = ops + 1
    /\ CallLock(t, "login_enter")
    /\ UNCHANGED <<readers, writer, lock, read_ready, sessVars, cacheVars, moreVars>>

\* login(): self._session = requests.Session()
LoginNew(t) ==
    /\ pc[t] = "login_new"
    /\ made' = made + 1
    /\ session' = made'
    /\ pc' = [pc EXCEPT ![t] = "login_post"]
    /\ UNCHANGED <<lockVars, ops, out, interval, started, runs, cacheVars, moreVars>>

\* login(): post("/Action/login"), the checks on the response, and
\* _WriteLock.__exit__ on the way out.
LoginPost(t, r) ==
    /\ pc[t] = "login_post"
    /\ session' = IF LoginClears(r) THEN None ELSE session
    /\ out' = [out EXCEPT ![t] = Outcome("login", LoginRaises(r), r, LoginDecodes(r))]
    /\ CallLock(t, WithExit(LoginRaises(r), "login_exit"))
    /\ UNCHANGED <<readers, writer, lock, read_ready, ops, made, interval, started, runs, cacheVars, moreVars>>

\* call(): `with self._lock.read_lock()`.
BeginCall(t) ==
    /\ pc[t] = "idle"
    /\ ops < MaxRequests
    /\ ops' = ops + 1
    /\ CallLock(t, "call_enter")
    /\ UNCHANGED <<readers, writer, lock, read_ready, sessVars, cacheVars, moreVars>>

\* post(): `if self._session is None`.
CallPost(t) ==
    /\ pc[t] = "call_post"
    /\ pc' = [pc EXCEPT ![t] = IF session = None THEN "call_assign" ELSE "call_send"]
    /\ UNCHANGED <<lockVars, ops, sessVars, cacheVars, moreVars>>

\* post(): self._session = requests.Session()
CallAssign(t) ==
    /\ pc[t] = "call_assign"
    /\ made' = made + 1
    /\ session' = made'
    /\ pc' = [pc EXCEPT ![t] = "call_send"]
    /\ UNCHANGED <<lockVars, ops, out, interval, started, runs, cacheVars, moreVars>>

\* call(): self._session.post("/Action/call"), the checks on the response and
\* its decoding, and _ReadLock.__exit__ on the way out.
CallSend(t, r) ==
    /\ pc[t] = "call_send"
    /\ out' = [out EXCEPT ![t] = Outcome("call", CallRaises(r), r, CallDecodes(r))]
    /\ CallLock(t, WithExit(CallRaises(r), "call_exit"))
    /\ UNCHANGED <<readers, writer, lock, read_ready, ops, session, made, interval, started, runs, cacheVars, moreVars>>

\* check_result's wrapped(): the body of call() has returned or raised, the
\* lock released; the Result code is tested.
Wrapped(t) ==
    /\ pc[t] = "call_check"
    /\ out' = [out EXCEPT ![t] = [@ EXCEPT !.err = CheckRaises(out[t]),
                                          !.result = CheckResult(out[t])]]
    /\ pc' = [pc EXCEPT ![t] = "returned"]
    /\ UNCHANGED <<lockVars, ops, session, made, interval, started, runs, cacheVars, moreVars>>

\* The caller has the value or the exception of login() or call(), and goes on.
Resume(t) ==
    /\ pc[t] = "returned"
    /\ pc' = [pc EXCEPT ![t] = "idle"]
    /\ out' = [out EXCEPT ![t] = NoOut]
    /\ UNCHANGED <<lockVars, ops, session, made, interval, started, runs, cacheVars, moreVars>>

\* ---------------------------------------------------------------- Scheduler
\* start() without the test of the interval.
StartsThreadAlways == TRUE

\* start(): `if self._interval > 0`.
StartsThread == interval > 0

\* Scheduler.start(), called once by app.py.
Start ==
    /\ ~started
    /\ started' = TRUE
    /\ pc' = [pc EXCEPT ![SchedT] = IF StartsThread THEN "thread_run" ELSE @]
    /\ UNCHANGED <<lockVars, ops, session, made, out, interval, runs, cacheVars, moreVars>>

\* The Scheduler's thread runs its target, which __init__ set to the wrapped
\* callable (login() in app.py); the thread ends when the target returns or
\* raises.
ThreadRun ==
    /\ pc[SchedT] = "thread_run"
    /\ runs' = runs + 1
    /\ CallLock(SchedT, "login_enter")
    /\ out' = [out EXCEPT ![SchedT] = NoOut]
    /\ UNCHANGED <<readers, writer, lock, read_ready, ops, session, made, interval, started, cacheVars, moreVars>>

\* The target has returned or raised: the Scheduler's thread ends, what was
\* raised going to the threading excepthook.
ThreadEnd ==
    /\ pc[SchedT] = "returned"
    /\ pc' = [pc EXCEPT ![SchedT] = "finished"]
    /\ out' = [out EXCEPT ![SchedT] = NoOut]
    /\ UNCHANGED <<lockVars, ops, session, made, interval, started, runs, cacheVars, moreVars>>

\* Scheduler.__call__: the wrapped callable (login() in app.py) runs on the
\* thread of the caller.
SchedulerCall(t) ==
    /\ pc[t] = "idle"
    /\ ops < MaxRequests
    /\ ops' = ops + 1
    /\ sync_runs' = sync_runs + 1
    /\ CallLock(t, "login_enter")
    /\ UNCHANGED <<readers, writer, lock, read_ready, sessVars, cacheVars, runVars>>

SessionSpecInit ==
    /\ LockInit
    /\ RunInit
    /\ ThreadsInit
    /\ CacheIdle
    /\ SessionInit
    /\ interval \in Intervals
    /\ started = FALSE
    /\ runs = 0

SessionSpecNext ==
    \/ Start
    \/ ThreadRun
    \/ ThreadEnd
    \/ \E t \in Workers : BeginLogin(t)
    \/ \E t \in Workers : BeginCall(t)
    \/ \E t \in AllThreads : LoginNew(t)
    \/ \E t \in AllThreads, r \in Responses : LoginPost(t, r)
    \/ \E t \in Workers : CallPost(t)
    \/ \E t \in Workers : CallAssign(t)
    \/ \E t \in Workers, r \in Responses : CallSend(t, r)
    \/ \E t \in Workers : Wrapped(t)
    \/ \E t \in Workers : Resume(t)
    \/ \E t \in AllThreads : LockEnter(t)
    \/ \E t \in Workers : acquire_read(t)
    \/ \E t \in Workers : release_read(t)
    \/ \E t \in AllThreads : acquire_write(t)
    \/ \E t \in AllThreads : release_write(t)

SessionSpec == SessionSpecInit /\ [][SessionSpecNext]_vars

\* The threads inside the write-locked section of login() and inside the
\* read-locked section of call().
InLogin == {t \in AllThreads : pc[t] \in {"login_new", "login_post", "login_exit"}}
InCall ==
    {t \in AllThreads : pc[t] \in {"call_post", "call_assign", "call_send", "call_exit"}}

C4_OnlyLoginAssigns ==
    [][session' # session =>
        \E t \in AllThreads : pc[t] \in {"login_new", "login_post"} /\ pc'[t] # pc[t]]_vars

\* C5: once start() has been called with interval > 0 the background thread
\* keeps running the wrapped callable for the rest of the process lifetime:
\* it never ends after a run.
C5_RunsRepeatedly ==
    (started /\ interval > 0) => pc[SchedT] # "finished"

\* A login() failure as the claim names them: a non-2xx status, or an
\* envelope whose Result code is no multiple of 10000.
FailedLogin(o) ==
    /\ o.op = "login"
    /\ \/ o.status # 0 /\ o.status \notin 200..299
       \/ o.decoded /\ o.code % 10000 # 0

\* C10: a login() that fails on the status or on the Result code raises
\* AuthError, has the session reference cleared when it gives up the write
\* lock, and does not leave the write lock held when the caller has the error.
C10_FailedLogin ==
    /\ \A t \in AllThreads :
        FailedLogin(out[t]) =>
            /\ out[t].err = "AuthError"
            /\ pc[t] \in {"login_exit", "returned"}
            /\ pc[t] = "login_exit" => session = None
    /\ writer => InLogin # {}

\* A login() that got status 403 has raised AuthError to its caller, with
\* the session cleared and the lock free.
C10_Witness ==
    \E t \in Workers :
        /\ pc[t] = "returned"
        /\ out[t].op = "login"
        /\ out[t].status = 403
        /\ out[t].err = "AuthError"
        /\ session = None
        /\ ~writer

\* A thread inside login() or call() keeps running and the upstream answers
\* or the request fails; nothing obliges a thread to begin an operation.
SessionProgress(t) ==
    \/ LockStep(t)
    \/ LoginNew(t)
    \/ \E r \in Responses : LoginPost(t, r)
    \/ CallPost(t)
    \/ CallAssign(t)
    \/ \E r \in Responses : CallSend(t, r)
    \/ Wrapped(t)

\* The threads that use the session: the workers and the Scheduler's thread.
SessionThreads == Workers \cup {SchedT}

\* Some thread that can take a step inside login() or call() takes one.
FairSessionSpec == SessionSpec /\ WF_vars(\E t \in SessionThreads : SessionProgress(t))

\* C11: the lock's fields count exactly the operations inside their locked
\* sections, whatever the operations that left them returned or raised
\* (readers decremented, writer cleared on every exit); and, the threads being
\* scheduled fairly, again and again no login() or call() is waiting for the
\* lock: none is left blocked forever.
C11_LockReleased ==
    /\ [](readers = Cardinality(InCall) /\ (writer <=> InLogin # {}))
    /\ []<>(\A t \in SessionThreads : pc[t] \notin {"call_enter", "login_enter"})

\* The Scheduler's login() waited for a call() that then raised HTTPError, and
\* has been admitted with the caller holding the error.
C11_Witness ==
    \E t \in Workers :
        /\ pc[t] = "returned"
        /\ out[t].op = "call"
        /\ out[t].err = "HTTPError"
        /\ pc[SchedT] = "login_post"
        /\ waited[SchedT] = "readers"
        /\ readers = 0

\* ------------------------------------------------------------ CacheWrapper
lockSessVars == <<readers, writer, lock, read_ready, pc, lk, waited, ops, sessVars, moreVars>>

\* The dict d with d[k] = v assigned.
Put(d, k, v) == [x \in DOMAIN d \cup {k} |-> IF x = k THEN v ELSE d[x]]

\* An expiry test that keeps an entry one second too long.
ExpiredLate(age) == age > expire

\* The comparison of _cleanup and of __call__: an entry of this age is expired.
Expired(age) == age >= expire

\* A lock that lets every caller in.
CacheLockFreeAlways == TRUE

\* `with self._lock`: the lock can be taken.
CacheLockFree == cache_lock = NoThread

\* A wrapper that caches with expire = 0.
BypassNegativeOnly == expire < 0

\* `if self._expire <= 0`: __call__ goes to the wrapped function directly.
Bypass == expire <= 0

\* time.time() advances.
Tick ==
    /\ now < MaxTime
    /\ now' = now + 1
    /\ UNCHANGED <<lockSessVars, expire, cache, last_call, cache_lock, count, cpc, key,
                   current_time, invoked, stored, ret, calls, computed, fcalls, cargs, access_token, hdr>>

\* __call__ entered with header h on the request (NoHeader outside app.py) and
\* the key k of its arguments: `if self._expire <= 0` sends it to the wrapped
\* function directly, otherwise it goes for the lock.
Enter(t, k, h) ==
    /\ cpc[t] = "idle"
    /\ calls < MaxCalls
    /\ calls' = calls + 1
    /\ key' = [key EXCEPT ![t] = k]
    /\ hdr' = [hdr EXCEPT ![t] = h]
    /\ cpc' = [cpc EXCEPT ![t] = IF Bypass THEN "func" ELSE "lock"]
    /\ fcalls' = IF Bypass THEN fcalls + 1 ELSE fcalls
    /\ invoked' = [invoked EXCEPT ![t] = FALSE]
    /\ stored' = [stored EXCEPT ![t] = NoRet]
    /\ ret' = [ret EXCEPT ![t] = NoRet]
    /\ current_time' = [current_time EXCEPT ![t] = 0]
    /\ UNCHANGED <<lockSessVars, expire, cache, last_call, cache_lock, count, now, computed,
                   access_token>>

\* A call of the wrapped callable with the arguments of key k.
Invoke(t, k) == Enter(t, k, NoHeader) /\ UNCHANGED cargs

\* A call of the wrapped callable with the arguments c: the key is built
\* from them.
InvokeArgs(t, c) == Enter(t, KeyOf(c), NoHeader) /\ cargs' = [cargs EXCEPT ![t] = c]

\* `with self._lock:` entered.
Acquire(t) ==
    /\ cpc[t] = "lock"
    /\ CacheLockFree
    /\ cache_lock' = t
    /\ cpc' = [cpc EXCEPT ![t] = "cleanup"]
    /\ UNCHANGED <<lockSessVars, expire, cache, last_call, count, now, key, current_time,
                   invoked, stored, ret, calls, computed, fcalls, cargs, access_token, hdr>>

\* A cleanup that deletes nothing.
StaleNone(c) == {}

\* The keys _cleanup deletes at time c.
Stale(c) == {k \in DOMAIN cache : Expired(c - last_call[k])}

\* self._cleanup()
Cleanup(t) ==
    /\ cpc[t] = "cleanup"
    /\ cache' = [k \in DOMAIN cache \ Stale(now) |-> cache[k]]
    /\ last_call' = [k \in DOMAIN last_call \ Stale(now) |-> last_call[k]]
    /\ cpc' = [cpc EXCEPT ![t] = "test"]
    /\ UNCHANGED <<lockSessVars, expire, cache_lock, count, now, key, current_time,
                   invoked, stored, ret, calls, computed, fcalls, cargs, access_token, hdr>>

\* self._last_call.get(key, 0)
LastCallGet(k) == IF k \in DOMAIN last_call THEN last_call[k] ELSE 0

\* The condition of lines 70-73 at time c: the entry of k has to be computed.
Miss(k, c) == k \notin DOMAIN cache \/ Expired(c - LastCallGet(k))

\* current_time = time.time() and the test of the entry.
Test(t) ==
    /\ cpc[t] = "test"
    /\ current_time' = [current_time EXCEPT ![t] = now]
    /\ cpc' = [cpc EXCEPT ![t] = IF Miss(key[t], now) THEN "func" ELSE "unlock"]
    /\ fcalls' = IF Miss(key[t], now) THEN fcalls + 1 ELSE fcalls
    /\ UNCHANGED <<lockSessVars, expire, cache, last_call, cache_lock, count, now, key,
                   cargs, invoked, stored, ret, calls, computed, access_token, hdr>>

\* ------------------------------------------------------- app.py: authorize
Headers == {<<>>, <<"secret">>, <<"Bearer", "secret">>, <<"Bearer", "wrong">>}
AccessTokens == {<<>>, <<"secret">>}

\* header.split(maxsplit=1): no word, the one word, or the first word and
\* the rest.
Split(h) ==
    IF Len(h) = 0 THEN <<>>
    ELSE IF Len(h) = 1 THEN <<h>>
    ELSE <<<<Head(h)>>, Tail(h)>>

\* check_auth_header on header h: passes, aborts with 401, or fails with the
\* IndexError of split[0] on a header without a word.
CheckAuthHeader(h) ==
    IF access_token = <<>> THEN "ok"
    ELSE IF Len(Split(h)) = 2
         THEN IF Split(h)[2] # access_token THEN "401" ELSE "ok"
    ELSE IF Len(Split(h)) = 0 THEN "IndexError"
    ELSE IF Split(h)[1] # access_token THEN "401" ELSE "ok"

\* Whether the callable the cache wraps can return for caller t: in app.py it
\* is trycatch_template(authorize(handler)), which raises (abort(500)) unless
\* check_auth_header passes; elsewhere it is the plain wrapped function.
MayReturn(t) == hdr[t] = NoHeader \/ CheckAuthHeader(hdr[t]) = "ok"

\* self._func(*args, **kwargs) returns: the counter goes up and is the result;
\* under the lock the result and current_time are stored for the key.
FuncReturn(t) ==
    /\ cpc[t] = "func"
    /\ MayReturn(t)
    /\ count' = count + 1
    /\ computed' = Put(computed, count', cargs[t])
    /\ invoked' = [invoked EXCEPT ![t] = TRUE]
    /\ IF Bypass
       THEN /\ ret' = [ret EXCEPT ![t] = [kind |-> "value", val |-> count']]
            /\ cpc' = [cpc EXCEPT ![t] = "done"]
            /\ UNCHANGED <<cache, last_call>>
       ELSE /\ cache' = Put(cache, key[t], count')
            /\ last_call' = Put(last_call, key[t], current_time[t])
            /\ cpc' = [cpc EXCEPT ![t] = "unlock"]
            /\ UNCHANGED ret
    /\ UNCHANGED <<lockSessVars, expire, cache_lock, now, key, current_time, stored,
                   calls, fcalls, cargs, access_token, hdr>>

\* A lock that stays with its holder when the block is left by an exception.
LockKeptOnRaise(t) == cache_lock

\* `with self._lock` left by an exception of t: the lock is released if t
\* holds it (the bypass holds none).
LockAfterRaise(t) == IF cache_lock = t THEN NoThread ELSE cache_lock

\* self._func(*args, **kwargs) raises: the exception leaves __call__, through
\* the `with self._lock` block when the lock is held.
FuncRaise(t) ==
    /\ cpc[t] = "func"
    /\ invoked' = [invoked EXCEPT ![t] = TRUE]
    /\ ret' = [ret EXCEPT ![t] = [kind |-> "raised", val |-> 0]]
    /\ cache_lock' = LockAfterRaise(t)
    /\ cpc' = [cpc EXCEPT ![t] = "done"]
    /\ UNCHANGED <<lockSessVars, expire, cache, last_call, count, now, key, current_time,
                   stored, calls, computed, fcalls, cargs, access_token, hdr>>

\* The `with self._lock` block is left.
Unlock(t) ==
    /\ cpc[t] = "unlock"
    /\ cache_lock' = NoThread
    /\ stored' = [stored EXCEPT ![t] =
                   IF key[t] \in DOMAIN cache
                   THEN [kind |-> "value", val |-> cache[key[t]]]
                   ELSE [kind |-> "KeyError", val |-> 0]]
    /\ cpc' = [cpc EXCEPT ![t] = "return"]
    /\ UNCHANGED <<lockSessVars, expire, cache, last_call, count, now, key, current_time,
                   invoked, ret, calls, computed, fcalls, cargs, access_token, hdr>>

\* return self._cache[key]
ReturnEntry(t) ==
    /\ cpc[t] = "return"
    /\ ret' = [ret EXCEPT ![t] =
                IF key[t] \in DOMAIN cache
                THEN [kind |-> "value", val |-> cache[key[t]]]
                ELSE [kind |-> "KeyError", val |-> 0]]
    /\ cpc' = [cpc EXCEPT ![t] = "done"]
    /\ UNCHANGED <<lockSessVars, expire, cache, last_call, cache_lock, count, now, key,
                   current_time, invoked, stored, calls, computed, fcalls, cargs, access_token, hdr>>

\* The caller has the value or the exception, and goes on.
Finish(t) ==
    /\ cpc[t] = "done"
    /\ cpc' = [cpc EXCEPT ![t] = "idle"]
    /\ key' = [key EXCEPT ![t] = AppKey]
    /\ cargs' = [cargs EXCEPT ![t] = NoArgs]
    /\ hdr' = [hdr EXCEPT ![t] = NoHeader]
    /\ current_time' = [current_time EXCEPT ![t] = 0]
    /\ invoked' = [invoked EXCEPT ![t] = FALSE]
    /\ stored' = [stored EXCEPT ![t] = NoRet]
    /\ ret' = [ret EXCEPT ![t] = NoRet]
    /\ UNCHANGED <<lockSessVars, expire, cache, last_call, cache_lock, count, now, calls, computed, fcalls,
                   access_token>>

\* A request to a route of app.py with Authorization header h: the route's
\* function takes no arguments, so every request has the same key.
Request(t, h) == Enter(t, AppKey, h) /\ UNCHANGED cargs

CacheSpecInit ==
    /\ LockInit
    /\ RunInit
    /\ ThreadsInit
    /\ SessionIdle
    /\ CacheInit
    /\ expire \in Expires
    /\ access_token = <<>>

CacheSpecNext ==
    \/ Tick
    \/ \E t \in Callers, k \in Keys : Invoke(t, k)
    \/ \E t \in Callers : Acquire(t)
    \/ \E t \in Callers : Cleanup(t)
    \/ \E t \in Callers : Test(t)
    \/ \E t \in Callers : FuncReturn(t)
    \/ \E t \in Callers : FuncRaise(t)
    \/ \E t \in Callers : Unlock(t)
    \/ \E t \in Callers : ReturnEntry(t)
    \/ \E t \in Callers : Finish(t)

CacheSpec == CacheSpecInit /\ [][CacheSpecNext]_vars

AppSpecInit ==
    /\ LockInit
    /\ RunInit
    /\ ThreadsInit
    /\ SessionIdle
    /\ CacheInit
    /\ expire \in Expires
    /\ access_token \in AccessTokens

AppSpecNext ==
    \/ Tick
    \/ \E t \in Callers, h \in Headers : Request(t, h)
    \/ \E t \in Callers : Acquire(t)
    \/ \E t \in Callers : Cleanup(t)
    \/ \E t \in Callers : Test(t)
    \/ \E t \in Callers : FuncReturn(t)
    \/ \E t \in Callers : FuncRaise(t)
    \/ \E t \in Callers : Unlock(t)
    \/ \E t \in Callers : ReturnEntry(t)
    \/ \E t \in Callers : Finish(t)

AppSpec == AppSpecInit /\ [][AppSpecNext]_vars

\* The callers executing the wrapped function.
InFunc == {t \in Callers : cpc[t] = "func"}

\* C3: a request that gets the route's data has passed check_auth_header: no
\* request with a token other than the access token is answered from the
\* entry an authorized request left in the cache.
C3_AuthBeforeCache ==
    \A t \in Callers :
        (cpc[t] = "done" /\ ret[t].kind = "value") => CheckAuthHeader(hdr[t]) = "ok"

\* C6: with expire > 0 an invocation whose wrapped function did not raise
\* returns the entry its key had when it released the lock, and never fails
\* on a missing entry.
C6_ReturnsStored ==
    \A t \in Callers :
        (expire > 0 /\ cpc[t] = "done" /\ ret[t].kind # "raised") => ret[t] = stored[t]

\* C7 as claimed: for every expire, no two callers execute the wrapped
\* function at the same time.
C7_NeverConcurrent == Cardinality(InFunc) <= 1

\* C7: with expire > 0 no two callers execute the wrapped function at the
\* same time, whatever their keys.
C7_SerializedWhenCaching == expire > 0 => Cardinality(InFunc) <= 1

\* One caller executes the wrapped function while another waits for the lock.
C7_Witness ==
    /\ expire > 0
    /\ \E a, b \in Callers : cpc[a] = "func" /\ cpc[b] = "lock" /\ key[a] # key[b]

\* C8 as claimed: two invocations with the same key whose times (the time
\* each reads under the lock) are less than expire apart return the same
\* result.
C8_SameWithinT ==
    \A a, b \in Callers :
        ( /\ expire > 0
          /\ cpc[a] = "done" /\ cpc[b] = "done"
          /\ key[a] = key[b]
          /\ ret[a].kind = "value" /\ ret[a] = stored[a]
          /\ ret[b].kind = "value" /\ ret[b] = stored[b]
          /\ current_time[a] - current_time[b] < expire
          /\ current_time[b] - current_time[a] < expire )
        => ret[a].val = ret[b].val

\* C8: with expire > 0, an invocation calls the wrapped function only when
\* its key has no entry or an entry computed expire or more seconds before the
\* time it reads; one that does not call it has an entry computed less than
\* expire seconds before; one that calls it stores the result with the time
\* it read before the call.
C8_Expiry ==
    expire > 0 =>
        \A t \in Callers :
            /\ (cpc[t] = "func") =>
                \/ key[t] \notin DOMAIN cache
                \/ current_time[t] - last_call[key[t]] >= expire
            /\ (cpc[t] = "unlock" /\ ~invoked[t]) =>
                /\ key[t] \in DOMAIN cache
                /\ current_time[t] - last_call[key[t]] < expire
                /\ current_time[t] - last_call[key[t]] >= 0
            /\ (cpc[t] = "unlock" /\ invoked[t]) =>
                /\ cache[key[t]] = count
                /\ last_call[key[t]] = current_time[t]

\* After a computation at t=0 that returned 1, the call at t=2 has returned 1
\* without calling the wrapped function and the call at t=6 has recomputed
\* and returned 2.
C8_Witness ==
    /\ expire = 5
    /\ count = 2
    /\ \E a, b \in Callers :
        /\ cpc[a] = "done" /\ cpc[b] = "done"
        /\ key[a] = key[b]
        /\ current_time[a] = 2 /\ ~invoked[a] /\ ret[a] = [kind |-> "value", val |-> 1]
        /\ current_time[b] = 6 /\ invoked[b] /\ ret[b] = [kind |-> "value", val |-> 2]
        /\ calls = 3

\* ---------------------------------------------------------- OnlyOneRunning
notRunVars == <<readers, writer, lock, read_ready, pc, lk, waited, ops, sessVars, cacheVars, sync_runs>>

\* A lock that lets every runner in.
RunLockFreeAlways == TRUE

\* `with self._lock`: the lock can be taken.
RunLockFree == run_lock = NoThread

\* OnlyOneRunning.__call__ entered: the runner goes for the lock.
RunCall(t) ==
    /\ rpc[t] = "idle"
    /\ invocations < MaxRuns
    /\ invocations' = invocations + 1
    /\ rpc' = [rpc EXCEPT ![t] = "lock"]
    /\ ran' = [ran EXCEPT ![t] = 0]
    /\ rres' = [rres EXCEPT ![t] = NoRet]
    /\ UNCHANGED <<notRunVars, run_lock, executions>>

\* `with self._lock:` entered and self._func(*args, **kwargs) called.
RunAcquire(t) ==
    /\ rpc[t] = "lock"
    /\ RunLockFree
    /\ run_lock' = t
    /\ rpc' = [rpc EXCEPT ![t] = "body"]
    /\ ran' = [ran EXCEPT ![t] = @ + 1]
    /\ executions' = executions + 1
    /\ UNCHANGED <<notRunVars, rres, invocations>>

\* The body returns (the number of its execution) and the `with` block is left.
RunReturn(t) ==
    /\ rpc[t] = "body"
    /\ rres' = [rres EXCEPT ![t] = [kind |-> "value", val |-> executions]]
    /\ run_lock' = IF run_lock = t THEN NoThread ELSE run_lock
    /\ rpc' = [rpc EXCEPT ![t] = "done"]
    /\ UNCHANGED <<notRunVars, ran, invocations, executions>>

\* The body raises: the exception leaves __call__ through the `with` block.
RunRaise(t) ==
    /\ rpc[t] = "body"
    /\ rres' = [rres EXCEPT ![t] = [kind |-> "raised", val |-> 0]]
    /\ run_lock' = IF run_lock = t THEN NoThread ELSE run_lock
    /\ rpc' = [rpc EXCEPT ![t] = "done"]
    /\ UNCHANGED <<notRunVars, ran, invocations, executions>>

\* The runner has the value or the exception, and goes on.
RunFinish(t) ==
    /\ rpc[t] = "done"
    /\ rpc' = [rpc EXCEPT ![t] = "idle"]
    /\ ran' = [ran EXCEPT ![t] = 0]
    /\ rres' = [rres EXCEPT ![t] = NoRet]
    /\ UNCHANGED <<notRunVars, run_lock, invocations, executions>>

RunSpecInit ==
    /\ LockInit
    /\ ThreadsInit
    /\ SessionIdle
    /\ CacheIdle
    /\ RunInit

RunSpecNext ==
    \/ \E t \in Runners : RunCall(t)
    \/ \E t \in Runners : RunAcquire(t)
    \/ \E t \in Runners : RunReturn(t)
    \/ \E t \in Runners : RunRaise(t)
    \/ \E t \in Runners : RunFinish(t)

RunSpec == RunSpecInit /\ [][RunSpecNext]_vars

\* The runners executing the body, and those blocked at the lock.
InBody == {t \in Runners : rpc[t] = "body"}
AtRunLock == {t \in Runners : rpc[t] = "lock"}

\* C12: no two runners execute the body at the same time; every invocation
\* that is past the lock has executed the body exactly once, so the executions
\* are the invocations minus those still blocked; the runner in the body is
\* the holder of the lock; and no two invocations share a result.
C12_OnlyOneRunning ==
    /\ Cardinality(InBody) <= 1
    /\ \A t \in Runners :
        /\ rpc[t] \in {"body", "done"} => ran[t] = 1
        /\ rpc[t] \in {"idle", "lock"} => ran[t] = 0
        /\ rpc[t] = "body" <=> run_lock = t
    /\ executions = invocations - Cardinality(AtRunLock)
    /\ \A a, b \in Runners :
        (a # b /\ rres[a].kind = "value" /\ rres[b].kind = "value") => rres[a].val # rres[b].val

\* Three calls issued together: one has completed, one is executing the body
\* and one is blocked at the lock.
C12_Witness ==
    \E a, b, c \in Runners :
        /\ rpc[a] = "done" /\ rres[a] = [kind |-> "value", val |-> 1]
        /\ rpc[b] = "body"
        /\ rpc[c] = "lock"
        /\ invocations = 3
        /\ executions = 2

\* C13: with expire <= 0 every invocation calls the wrapped function exactly
\* once (each invocation begun has called it, and the calls are as many as the
\* invocations), never takes the lock, and the result map and the timestamp
\* map stay empty.
C13_BypassNeverCaches ==
    expire <= 0 =>
        /\ cache = EmptyDict
        /\ last_call = EmptyDict
        /\ cache_lock = NoThread
        /\ fcalls = calls
        /\ \A t \in Callers :
            /\ cpc[t] \in {"idle", "func", "done"}
            /\ cpc[t] = "done" => invoked[t]

\* With expire = 0, three invocations have called the wrapped function three
\* times, and two with the same key have different results.
C13_Witness ==
    /\ expire = 0
    /\ calls = 3
    /\ fcalls = 3
    /\ \E a, b \in Callers :
        /\ cpc[a] = "done" /\ cpc[b] = "done"
        /\ key[a] = key[b]
        /\ ret[a].kind = "value" /\ ret[b].kind = "value"
        /\ ret[a].val # ret[b].val

\* --------------------------------------------------- CacheWrapper: the keys
KeySpecInit ==
    /\ LockInit
    /\ RunInit
    /\ ThreadsInit
    /\ SessionIdle
    /\ CacheInit
    /\ expire = ExpireSeconds
    /\ access_token = <<>>

KeySpecNext ==
    \/ Tick
    \/ \E t \in Callers, c \in ArgForms : InvokeArgs(t, c)
    \/ \E t \in Callers : Acquire(t)
    \/ \E t \in Callers : Cleanup(t)
    \/ \E t \in Callers : Test(t)
    \/ \E t \in Callers : FuncReturn(t)
    \/ \E t \in Callers : FuncRaise(t)
    \/ \E t \in Callers : Unlock(t)
    \/ \E t \in Callers : ReturnEntry(t)
    \/ \E t \in Callers : Finish(t)

KeySpec == KeySpecInit /\ [][KeySpecNext]_vars

\* The callers inside an invocation.
InFlight == {t \in Callers : cpc[t] # "idle"}

\* Arguments c and d are the same call: the same positional arguments in the
\* same order and the same set of keyword arguments.
SameArguments(c, d) ==
    /\ c.args = d.args
    /\ {c.kwargs[i] : i \in 1..Len(c.kwargs)} = {d.kwargs[i] : i \in 1..Len(d.kwargs)}

\* C14: two invocations have the same key exactly when their arguments are
\* the same positional tuple and the same unordered keyword set; the entry an
\* invocation finds under its key, and the value it returns, were computed by
\* the wrapped function for those arguments; and a step changes the result or
\* the timestamp stored under a key only as the computation of an invocation
\* with that key.
C14_KeysIndependent ==
    /\ [](\A a, b \in InFlight : key[a] = key[b] <=> SameArguments(cargs[a], cargs[b]))
    /\ [](\A t \in InFlight :
            /\ key[t] \in DOMAIN cache => SameArguments(computed[cache[key[t]]], cargs[t])
            /\ (cpc[t] = "done" /\ ret[t].kind = "value") =>
                   SameArguments(computed[ret[t].val], cargs[t]))
    /\ [][\A k \in DOMAIN cache \cap DOMAIN cache' :
            (cache'[k] # cache[k] \/ last_call'[k] # last_call[k]) =>
                \E t \in Callers : key[t] = k /\ cpc[t] = "func" /\ cpc'[t] = "unlock"]_vars

\* f(a=1, b=2) computed 1; f(a=2) then computed 2, stored beside it; and
\* f(b=2, a=1) has returned 1 without calling the wrapped function.
C14_Witness ==
    /\ KeyOf(Keyword(2)) \in DOMAIN cache
    /\ cache[KeyOf(Keyword(2))] = 2
    /\ \E a, b \in Callers :
        /\ cpc[a] = "done" /\ cargs[a] = TwoKeywords(1, 2) /\ invoked[a]
        /\ ret[a] = [kind |-> "value", val |-> 1]
        /\ cpc[b] = "done" /\ cargs[b] = Swapped(1, 2) /\ ~invoked[b]
        /\ ret[b] = [kind |-> "value", val |-> 1]

\* C15: a call() that got an envelope decoded returns the envelope's Data
\* when its Result code is a multiple of 10000 and raises APIError carrying
\* the code and the ErrMsg otherwise; APIError is raised for no other call(),
\* and data is returned by no other.
C15_ResultEnvelope ==
    \A t \in Workers :
        (pc[t] = "returned" /\ out[t].op = "call") =>
            /\ (out[t].decoded /\ out[t].code % 10000 = 0) =>
                   /\ out[t].err = "none"
                   /\ out[t].result = <<"return", Data(out[t].code)>>
            /\ (out[t].decoded /\ out[t].code % 10000 # 0) =>
                   /\ out[t].err = "APIError"
                   /\ out[t].result = <<"APIError", out[t].code, ErrMsg(out[t].code)>>
            /\ out[t].err = "APIError" => (out[t].decoded /\ out[t].code % 10000 # 0)
            /\ out[t].result[1] = "return" => (out[t].decoded /\ out[t].code % 10000 = 0)

\* A call() that received the Result code 10001 has raised APIError carrying
\* 10001, after one that received 20000 returned its Data.
C15_Witness ==
    \E t \in Workers :
        /\ pc[t] = "returned"
        /\ out[t].op = "call"
        /\ out[t].result = <<"APIError", 10001, ErrMsg(10001)>>
        /\ ops = 2

\* ------------------------------------------------- Scheduler, called directly
SchedSpecInit ==
    /\ LockInit
    /\ RunInit
    /\ ThreadsInit
    /\ CacheIdle
    /\ SessionInit
    /\ interval \in Intervals \cup {-1}
    /\ started = FALSE
    /\ runs = 0

SchedSpecNext ==
    \/ Start
    \/ ThreadRun
    \/ ThreadEnd
    \/ \E t \in Workers : SchedulerCall(t)
    \/ \E t \in SessionThreads : LoginNew(t)
    \/ \E t \in SessionThreads, r \in Responses : LoginPost(t, r)
    \/ \E t \in Workers : Resume(t)
    \/ \E t \in SessionThreads : LockEnter(t)
    \/ \E t \in SessionThreads : acquire_write(t)
    \/ \E t \in SessionThreads : release_write(t)

SchedSpec == SchedSpecInit /\ [][SchedSpecNext]_vars

\* C16: with interval <= 0 the Scheduler's thread is never started, before
\* start() and after it, and the wrapped callable never runs on it; every
\* direct call of the Scheduler object still runs the callable, on the thread
\* of the caller: the logins begun (the sessions made after the first) are
\* the direct calls and the thread's runs that have reached it.
C16_DisabledScheduler ==
    /\ interval <= 0 =>
        /\ pc[SchedT] = "unstarted"
        /\ runs = 0
        /\ out[SchedT] = NoOut
    /\ sync_runs = ops
    /\ made - 1 = sync_runs + runs
                  - Cardinality({t \in SessionThreads : pc[t] \in {"login_enter", "login_new"}})

\* With interval = 0 and start() called, a direct call of the Scheduler object
\* has run login() to its end on the caller's thread, and no run was made on
\* the Scheduler's thread.
C16_Witness ==
    /\ interval = 0
    /\ started
    /\ runs = 0
    /\ pc[SchedT] = "unstarted"
    /\ sync_runs = 1
    /\ \E t \in Workers : pc[t] = "returned" /\ out[t].op = "login" /\ out[t].err = "none"

\* ------------------------------ ReadWriteLock under overlapping reader arrivals
\* A thread arrives to read, any number of times: the arrivals are counted up
\* to MaxOps.
ArriveRead(t) ==
    /\ pc[t] = "idle"
    /\ ops' = IF ops < MaxOps THEN ops + 1 ELSE ops
    /\ CallLock(t, "acquire_read")
    /\ UNCHANGED <<readers, writer, lock, read_ready, otherVars>>

\* A thread arrives to write while a reader holds the lock and no other writer
\* is waiting.
ArriveWrite(t) ==
    /\ pc[t] = "idle"
    /\ readers >= 1
    /\ \A u \in Threads : pc[u] # "acquire_write"
    /\ CallLock(t, "acquire_write")
    /\ UNCHANGED <<readers, writer, lock, read_ready, ops, otherVars>>

\* A reader leaves only while another reader holds the lock and is not
\* leaving: the readers' holds overlap continuously.
LeaveOverlapped(t) ==
    /\ \E u \in Threads \ {t} : pc[u] = "reading"
    /\ EndRead(t)

OverlapSpecNext ==
    \E t \in Threads :
        \/ ArriveRead(t)
        \/ ArriveWrite(t)
        \/ LeaveOverlapped(t)
        \/ LockEnter(t)
        \/ acquire_read(t)
        \/ release_read(t)
        \/ acquire_write(t)

OverlapSpec == LockSpecInit /\ [][OverlapSpecNext]_vars

\* Every thread keeps running: it arrives again, leaves when the overlap
\* allows it, and advances inside the lock's methods.
OverlapProgress(t) ==
    \/ ArriveRead(t)
    \/ LeaveOverlapped(t)
    \/ LockStep(t)

FairOverlapSpec == OverlapSpec /\ \A t \in Threads : WF_vars(OverlapProgress(t))

\* Thread t is admitted by acquire_read in this step.
Admitted(t) == pc[t] = "acquire_read" /\ pc'[t] = "reading" /\ readers' = readers + 1

\* C17: acquire_read admits its caller whenever no writer is active, waiting
\* writers or not; and with the readers' holds overlapping continuously, under
\* fair scheduling, readers are admitted again and again for ever and no
\* writer is ever admitted: one that waits keeps waiting.
C17_NoWriterPriority ==
    /\ [][\A t \in Threads :
            (pc[t] = "acquire_read" /\ lk[t] = "held" /\ lk'[t] # "held") =>
                IF writer THEN lk'[t] = "wait" ELSE Admitted(t)]_vars
    /\ [](\A t \in Threads : pc[t] \notin {"writing", "release_write"})
    /\ []<><<\E t \in Threads : Admitted(t)>>_vars

\* A writer is waiting for the readers to leave, two readers hold the lock,
\* and one of them was admitted after the writer began to wait.
C17_Witness ==
    \E w \in Threads :
        /\ pc[w] = "acquire_write"
        /\ lk[w] = "wait"
        /\ w \in read_ready
        /\ waited[w] = "readers"
        /\ readers = 2
        /\ ops = MaxOps

\* C18: with expire > 0, the result map and the timestamp map always have the
\* same keys; the cleanup step every invocation takes before it tests its own
\* entry removes exactly the entries, of any key, whose age at that time is
\* expire or more and leaves the others as they are; no invocation tests its
\* entry without that step; and no other step removes an entry.
C18_LazyEviction ==
    /\ [](DOMAIN cache = DOMAIN last_call)
    /\ [][\A t \in Callers :
            (cpc[t] = "cleanup" /\ cpc'[t] # "cleanup") =>
                /\ cpc'[t] = "test"
                /\ DOMAIN cache' = {k \in DOMAIN cache : now - last_call[k] < expire}
                /\ \A k \in DOMAIN cache' :
                       cache'[k] = cache[k] /\ last_call'[k] = last_call[k]]_vars
    /\ [][\A t \in Callers :
            (cpc'[t] \in {"test", "func"} /\ cpc[t] # cpc'[t] /\ expire > 0) =>
                (cpc[t] = "cleanup" \/ (cpc[t] = "test" /\ cpc'[t] = "func"))]_vars
    /\ [][(DOMAIN cache \ DOMAIN cache' # {}) =>
            \E t \in Callers : cpc[t] = "cleanup" /\ cpc'[t] = "test"]_vars

\* The third invocation, at time 5, has cleaned up: the entry computed at time
\* 0 for the other key is gone and the one computed at time 3 is kept.
C18_Witness ==
    /\ expire = 5
    /\ now = 5
    /\ calls = 3
    /\ count = 2
    /\ \E t \in Callers, k \in Keys :
        /\ cpc[t] = "test"
        /\ DOMAIN cache = {k}
        /\ cache[k] = 2
        /\ last_call[k] = 3

\* C19: with expire > 0, the step in which the wrapped function raises hands
\* the exception to the caller, leaves the lock free and leaves the result map
\* and the timestamp map as they were: nothing is stored for the key, and what
\* the key has is no entry or one that is expired at the time the invocation
\* read, so the next invocation with the key calls the wrapped function again.
C19_RaiseStoresNothing ==
    [][\A t \in Callers :
        (expire > 0 /\ cpc[t] = "func" /\ cpc'[t] = "done") =>
            /\ ret'[t].kind = "raised"
            /\ cache_lock = t
            /\ cache_lock' = NoThread
            /\ cache' = cache
            /\ last_call' = last_call
            /\ count' = count
            /\ \/ key[t] \notin DOMAIN cache'
               \/ current_time[t] - last_call'[key[t]] >= expire]_vars

\* The wrapped function raised for caller a; caller b, invoked with the same
\* key afterwards, has taken the lock and is calling the wrapped function again.
C19_Witness ==
    /\ expire > 0
    /\ fcalls = 2
    /\ count = 0
    /\ cache = EmptyDict
    /\ \E a, b \in Callers :
        /\ cpc[a] = "done" /\ ret[a].kind = "raised"
        /\ cpc[b] = "func" /\ key[b] = key[a]
        /\ cache_lock = b

\* ------------------------------- custom_decorators.py: the single-slot cache
\* Here cache is CacheWrapper._cache, None or the stored result, and last_call
\* is CacheWrapper._last_call, a time.
slotRest == <<expire, cache_lock, count, now, key, computed, access_token, hdr>>

\* CacheWrapper.__init__ of custom_decorators.py, and no caller inside __call__.
SlotInit ==
    /\ cache = None
    /\ last_call = 0
    /\ cache_lock = NoThread
    /\ count = 0
    /\ now = 0
    /\ cpc = [t \in Callers |-> "idle"]
    /\ key = [t \in Callers |-> AppKey]
    /\ cargs = [t \in Callers |-> NoArgs]
    /\ computed = EmptyDict
    /\ current_time = [t \in Callers |-> 0]
    /\ invoked = [t \in Callers |-> FALSE]
    /\ stored = [t \in Callers |-> NoRet]
    /\ ret = [t \in Callers |-> NoRet]
    /\ calls = 0
    /\ fcalls = 0
    /\ hdr = [t \in Callers |-> NoHeader]

\* __call__ entered with the arguments c: the caller goes for the lock.
SlotInvoke(t, c) ==
    /\ cpc[t] = "idle"
    /\ calls < MaxCalls
    /\ calls' = calls + 1
    /\ cargs' = [cargs EXCEPT ![t] = c]
    /\ cpc' = [cpc EXCEPT ![t] = "lock"]
    /\ UNCHANGED <<lockSessVars, slotRest, cache, last_call, current_time, invoked, stored,
                   ret, fcalls>>

\* `with self._lock:` entered.
SlotAcquire(t) ==
    /\ cpc[t] = "lock"
    /\ CacheLockFree
    /\ cache_lock' = t
    /\ cpc' = [cpc EXCEPT ![t] = "test"]
    /\ UNCHANGED <<lockSessVars, expire, count, now, key, computed, access_token, hdr,
                   cache, last_call, cargs, current_time, invoked, stored, ret, calls, fcalls>>

\* `self._cache is None or time.time() - self._last_call >= self._expire`
SlotMiss(c) == cache = None \/ Expired(c - last_call)

\* The test of line 54, at the time it reads.
SlotTest(t) ==
    /\ cpc[t] = "test"
    /\ current_time' = [current_time EXCEPT ![t] = now]
    /\ cpc' = [cpc EXCEPT ![t] = IF SlotMiss(now) THEN "func" ELSE "unlock"]
    /\ fcalls' = IF SlotMiss(now) THEN fcalls + 1 ELSE fcalls
    /\ UNCHANGED <<lockSessVars, slotRest, cache, last_call, cargs, invoked, stored, ret, calls>>

\* self._func(*args, **kwargs) returns v, None or the counter it incremented:
\* v is stored, and the time read after the call is the timestamp.
SlotFuncReturn(t, v) ==
    /\ cpc[t] = "func"
    /\ count' = count + 1
    /\ v \in {None, count'}
    /\ cache' = v
    /\ last_call' = now
    /\ computed' = Put(computed, count', cargs[t])
    /\ invoked' = [invoked EXCEPT ![t] = TRUE]
    /\ cpc' = [cpc EXCEPT ![t] = "unlock"]
    /\ UNCHANGED <<lockSessVars, expire, cache_lock, now, key, access_token, hdr, cargs,
                   current_time, stored, ret, calls, fcalls>>

\* The `with self._lock` block is left.
SlotUnlock(t) ==
    /\ cpc[t] = "unlock"
    /\ cache_lock' = NoThread
    /\ stored' = [stored EXCEPT ![t] = [kind |-> "value", val |-> cache]]
    /\ cpc' = [cpc EXCEPT ![t] = "return"]
    /\ UNCHANGED <<lockSessVars, expire, count, now, key, computed, access_token, hdr,
                   cache, last_call, cargs, current_time, invoked, ret, calls, fcalls>>

\* return self._cache
SlotReturn(t) ==
    /\ cpc[t] = "return"
    /\ ret' = [ret EXCEPT ![t] = [kind |-> "value", val |-> cache]]
    /\ cpc' = [cpc EXCEPT ![t] = "done"]
    /\ UNCHANGED <<lockSessVars, slotRest, cache, last_call, cargs, current_time, invoked,
                   stored, calls, fcalls>>

SlotSpecInit ==
    /\ LockInit
    /\ RunInit
    /\ ThreadsInit
    /\ SessionIdle
    /\ SlotInit
    /\ expire = ExpireSeconds
    /\ access_token = <<>>

SlotSpecNext ==
    \/ Tick
    \/ \E t \in Callers, c \in {Positional(v) : v \in ArgValues} : SlotInvoke(t, c)
    \/ \E t \in Callers : SlotAcquire(t)
    \/ \E t \in Callers : SlotTest(t)
    \/ \E t \in Callers, v \in 0..MaxCalls : SlotFuncReturn(t, v)
    \/ \E t \in Callers : FuncRaise(t)
    \/ \E t \in Callers : SlotUnlock(t)
    \/ \E t \in Callers : SlotReturn(t)
    \/ \E t \in Callers : Finish(t)

SlotSpec == SlotSpecInit /\ [][SlotSpecNext]_vars

\* C20: once the wrapped function has returned, whatever it returned, an
\* invocation that reads a time less than expire after the last computation
\* does not call the wrapped function and returns the stored result, and one
\* that calls it has read a time expire or more after the last computation
\* and stores what the function returns for its own arguments.
C20_SlotExpiry ==
    \A t \in Callers :
        /\ (cpc[t] = "func" /\ count > 0) => current_time[t] - last_call >= expire
        /\ (cpc[t] = "unlock" /\ ~invoked[t]) =>
               (count > 0 /\ current_time[t] - last_call < expire)
        /\ (cpc[t] = "unlock" /\ invoked[t] /\ cache # None) =>
               (cache = count /\ computed[cache] = cargs[t])

====
